---- MODULE Spec2Model ----
(***************************************************************************)
(* Pagination / overflow engine of the document processor                  *)
(* (src/src/js/core/PageManager.js).                                       *)
(*                                                                         *)
(* The document is a sequence of pages (.document-container elements of    *)
(* the page wrapper, in document order).  A page may or may not hold a     *)
(* content area (.editable-content); the content area holds an ordered     *)
(* list of child nodes.  Block nodes are numbered 1..n in reading order;   *)
(* node 0 stands for the whitespace text node that the page template of    *)
(* createNewPageElement puts into every content area it creates.           *)
(*                                                                         *)
(* Indices of child nodes are 0-based, as in the code: the node at index i *)
(* of a child list s is s[i+1]; -1 stands for null / "not found".          *)
(***************************************************************************)
EXTENDS Integers, Sequences, FiniteSets, TLC

\* ------------------------------------------------------------------ bounds
MaxNodes == 3
MaxKeepNodes == 4
MaxRuleNodes == 3
MaxInitPages == 2
MaxPages == 4
MaxTimers == 2
MaxTempDivs == 2
MaxTypedNodes == 2
MaxClock == 700
MaxObservers == 2
MaxIntervals == 2
MaxSettleNodes == 3

\* ------------------------------------------------------- program constants
\* PAGE_CONFIG.CONTENT_HEIGHT = '9in' = 864 px at 96 dpi: content.clientHeight
Capacity == 864
\* "Small buffer for rounding errors" of the overflow test
Tolerance == 2
\* a paragraph shorter than this after a heading counts as a caption
CaptionLimit == 100

\* DEBOUNCE_DELAYS.OVERFLOW_CHECK and DEBOUNCE_DELAYS.INPUT_CHECK, in ms
OVERFLOW_CHECK == 500
INPUT_CHECK == 100

Headings == {"H1", "H2", "H3", "H4", "H5", "H6"}
Lists == {"UL", "OL"}

\* ------------------------------------------------------------- node kinds
\* A node is described by what the engine reads of it: tagName, nodeType
\* (1 element, 3 text), textContent.length, whether the trimmed text ends
\* with ':', whether its markup contains 'Continue your content here', and
\* the height it adds to a container of the content area's width.
Para == [tagName |-> "P", nodeType |-> 1, textLen |-> 150, endsColon |-> FALSE,
  placeholder |-> FALSE, height |-> 500]
Small == [tagName |-> "P", nodeType |-> 1, textLen |-> 150, endsColon |-> FALSE,
  placeholder |-> FALSE, height |-> 300]
Big == [tagName |-> "P", nodeType |-> 1, textLen |-> 150, endsColon |-> FALSE,
  placeholder |-> FALSE, height |-> 950]
Stub == [tagName |-> "P", nodeType |-> 1, textLen |-> 26, endsColon |-> FALSE,
  placeholder |-> TRUE, height |-> 100]
Caption == [tagName |-> "P", nodeType |-> 1, textLen |-> 20, endsColon |-> FALSE,
  placeholder |-> FALSE, height |-> 100]
Intro == [tagName |-> "P", nodeType |-> 1, textLen |-> 20, endsColon |-> TRUE,
  placeholder |-> FALSE, height |-> 100]
Heading == [tagName |-> "H2", nodeType |-> 1, textLen |-> 20, endsColon |-> FALSE,
  placeholder |-> FALSE, height |-> 100]
Table == [tagName |-> "TABLE", nodeType |-> 1, textLen |-> 20, endsColon |-> FALSE,
  placeholder |-> FALSE, height |-> 500]
WsText == [tagName |-> "#text", nodeType |-> 3, textLen |-> 7, endsColon |-> FALSE,
  placeholder |-> FALSE, height |-> 0]
Caption100 == [tagName |-> "P", nodeType |-> 1, textLen |-> 100, endsColon |-> FALSE,
  placeholder |-> FALSE, height |-> 100]
Heading6 == [tagName |-> "H6", nodeType |-> 1, textLen |-> 20, endsColon |-> FALSE,
  placeholder |-> FALSE, height |-> 100]
UList == [tagName |-> "UL", nodeType |-> 1, textLen |-> 150, endsColon |-> FALSE,
  placeholder |-> FALSE, height |-> 500]
OList == [tagName |-> "OL", nodeType |-> 1, textLen |-> 150, endsColon |-> FALSE,
  placeholder |-> FALSE, height |-> 500]

\* a table of contents (div.table-of-contents with its div.toc-content) and
\* the empty paragraph <p><br></p>
Toc == [tagName |-> "DIV", nodeType |-> 1, textLen |-> 150, endsColon |-> FALSE,
  placeholder |-> FALSE, height |-> 300]
BlankPara == [tagName |-> "P", nodeType |-> 1, textLen |-> 0, endsColon |-> FALSE,
  placeholder |-> FALSE, height |-> 20]

\* a paragraph that nearly fills a page
Full == [tagName |-> "P", nodeType |-> 1, textLen |-> 150, endsColon |-> FALSE,
  placeholder |-> FALSE, height |-> 860]

\* paragraphs of half a page, and one and two units more
Half == [tagName |-> "P", nodeType |-> 1, textLen |-> 150, endsColon |-> FALSE,
  placeholder |-> FALSE, height |-> 432]
HalfPlus1 == [tagName |-> "P", nodeType |-> 1, textLen |-> 150, endsColon |-> FALSE,
  placeholder |-> FALSE, height |-> 433]
HalfPlus2 == [tagName |-> "P", nodeType |-> 1, textLen |-> 150, endsColon |-> FALSE,
  placeholder |-> FALSE, height |-> 434]

\* documents of plain blocks, oversized blocks and placeholder stubs
BlockKinds == {Para, Big, Stub}
\* documents of headings, captions, introductions, tables and text
KeepKinds == {Para, Caption, Intro, Heading, Table}
\* documents whose pages are filled to within a few units of the capacity
EdgeKinds == {Half, HalfPlus1, HalfPlus2}
\* documents that meet every case of the keep-with-next rule, with whitespace
\* text between elements
RuleKinds == {Caption, Caption100, Intro, Heading, Heading6, Table, UList, OList, WsText}

\* a table of nearly a page and a paragraph one unit taller than a page
TallTable == [tagName |-> "TABLE", nodeType |-> 1, textLen |-> 20, endsColon |-> FALSE,
  placeholder |-> FALSE, height |-> 800]
Over1 == [tagName |-> "P", nodeType |-> 1, textLen |-> 150, endsColon |-> FALSE,
  placeholder |-> FALSE, height |-> 865]

\* documents with nodes and keep-together groups taller than a page
OversizeKinds == {Para, Big, Over1, Heading, Intro, TallTable}

\* documents with paragraphs that bear no text
CursorKinds == {Para, Full, BlankPara}

VARIABLES
  node,                 \* node id -> kind of the node (fixed by Init)
  pages,                \* the .document-container elements, in document order
  pageCount,            \* this.pageCount
  isProcessingOverflow, \* this.isProcessingOverflow
  pc,                   \* "idle" | "forEach" | "measure": where the pass stands
  containers,           \* length of the NodeList the running pass iterates
  index,                \* forEach index of the running pass (0-based)
  tempDivs,             \* measurement containers attached to document.body
  followUps,            \* pending setTimeout(() => checkPageOverflow(), 100)
  focus,                \* page whose content area has the focus (0: none)
  splitIndex,           \* splitIndex of the latest handlePageOverflow
  error,                \* what the latest pass threw ("none" if it returned)
  guarded,              \* a call returned at the reentrancy guard during this pass
  original,             \* pages as they were before any pass
  log,                  \* pages visited by the running/latest pass, in order
  arrived,              \* moves of the running/latest pass
  cur,                  \* summary of the running pass
  last,                 \* summary of the latest finished pass
  prev,                 \* summary of the pass before that
  now,                  \* the time, in ms
  timers,               \* the pending timers of the debounced checks
  timeoutId,            \* timeoutId in the closure of debouncedOverflowCheck
  overflowTimeout,      \* this.overflowTimeout
  mockTimeoutId,        \* timeoutId in the closure of a debounced jest.fn()
  bursts,               \* per debounced function: its last trigger and the
                        \* invocations since
  contentObserver,      \* this.contentObserver (0: null)
  observers,            \* the connected MutationObservers and what they observe
  records,              \* the observers with mutation records to deliver
  showMargins,          \* the pages with class show-margins
  toggles,              \* calls of toggleMargins so far, modulo 2
  localStorage,         \* window.localStorage: the two keys of the application
  autoSaveInterval,     \* storageManager.autoSaveInterval (0: null)
  intervals,            \* the interval timers that are active
  caret,                \* the selection: where the caret was put last
  scrolledTo,           \* the page scrolled into view last (0: none)
  lifecycle             \* "constructed" | "running" | "destroyed" | "discarded"
                        \* (destroyed before it was initialized)

debounceVars == <<now, timers, timeoutId, overflowTimeout, mockTimeoutId, bursts>>

engineVars == <<contentObserver, observers, records, showMargins, toggles, localStorage,
  autoSaveInterval, intervals, caret, scrolledTo, lifecycle>>

vars == <<node, pages, pageCount, isProcessingOverflow, pc, containers, index,
  tempDivs, followUps, focus, splitIndex, error, guarded, original, log,
  arrived, cur, last, prev, now, timers, timeoutId, overflowTimeout,
  mockTimeoutId, bursts, contentObserver, observers, records, showMargins, toggles,
  localStorage, autoSaveInterval, intervals, caret, scrolledTo, lifecycle>>

\* ---------------------------------------------------------------- helpers
Max(a, b) == IF a >= b THEN a ELSE b

Rec(n) == IF n = 0 THEN WsText ELSE node[n]

RECURSIVE SumHeights(_)
SumHeights(s) == IF s = <<>> THEN 0 ELSE Rec(Head(s)).height + SumHeights(Tail(s))

RECURSIVE Concat(_)
Concat(ps) == IF ps = <<>> THEN <<>> ELSE Head(ps).children \o Concat(Tail(ps))

\* content.clientHeight and content.scrollHeight of a page's content area
clientHeight(page) == Capacity
scrollHeight(page) == Max(SumHeights(page.children), clientHeight(page))

\* tempDiv.scrollHeight once clones of allNodes[0..i] have been appended
\* (the container has height 'auto' and the width of the content area)
tempDivScrollHeight(allNodes, i) == SumHeights(SubSeq(allNodes, 1, i + 1))

\* ------------------------------------------------- keep-together resolver
RECURSIVE nextElementSibling(_, _)
nextElementSibling(siblings, i) ==
  IF i + 1 >= Len(siblings) THEN -1
  ELSE IF Rec(siblings[i + 2]).nodeType = 1 THEN i + 1
  ELSE nextElementSibling(siblings, i + 1)

\* variant: a paragraph of exactly CaptionLimit characters counts as a caption
shouldKeepWithNextInclusive(siblings, i) ==
  IF i < 0 THEN FALSE
  ELSE LET element == Rec(siblings[i + 1])
           nx == nextElementSibling(siblings, i)
       IN IF nx < 0 THEN FALSE
          ELSE LET nextElement == Rec(siblings[nx + 1])
                   afterParagraph == nextElementSibling(siblings, nx)
               IN \/ /\ element.tagName \in Headings
                     /\ \/ nextElement.tagName = "TABLE"
                        \/ nextElement.tagName \in Lists
                        \/ /\ nextElement.tagName = "P"
                           /\ nextElement.textLen <= CaptionLimit
                           /\ afterParagraph >= 0
                           /\ Rec(siblings[afterParagraph + 1]).tagName = "TABLE"
                  \/ /\ element.tagName = "P"
                     /\ element.endsColon
                     /\ nextElement.tagName \in {"TABLE"} \cup Lists

shouldKeepWithNext(siblings, i) ==
  IF i < 0 THEN FALSE
  ELSE LET element == Rec(siblings[i + 1])
           nx == nextElementSibling(siblings, i)
       IN IF nx < 0 THEN FALSE
          ELSE LET nextElement == Rec(siblings[nx + 1])
                   afterParagraph == nextElementSibling(siblings, nx)
               IN \/ /\ element.tagName \in Headings
                     /\ \/ nextElement.tagName = "TABLE"
                        \/ nextElement.tagName \in Lists
                        \/ /\ nextElement.tagName = "P"
                           /\ nextElement.textLen < CaptionLimit
                           /\ afterParagraph >= 0
                           /\ Rec(siblings[afterParagraph + 1]).tagName = "TABLE"
                  \/ /\ element.tagName = "P"
                     /\ element.endsColon
                     /\ nextElement.tagName \in {"TABLE"} \cup Lists

RECURSIVE groupLoop(_, _, _)
groupLoop(siblings, current, group) ==
  IF shouldKeepWithNext(siblings, current)
  THEN LET nx == nextElementSibling(siblings, current)
       IN IF nx >= 0 THEN groupLoop(siblings, nx, Append(group, nx)) ELSE group
  ELSE group

\* variant: the group is never extended beyond one successor
getKeepTogetherGroupPair(siblings, startElement) ==
  IF shouldKeepWithNext(siblings, startElement)
  THEN <<startElement, nextElementSibling(siblings, startElement)>>
  ELSE <<startElement>>

\* the group as the indices of its members in the sibling list
getKeepTogetherGroup(siblings, startElement) ==
  groupLoop(siblings, startElement, <<startElement>>)

RECURSIVE adjustLoop(_, _, _)
adjustLoop(allNodes, split, i) ==
  IF i < 0 THEN split
  ELSE LET group == getKeepTogetherGroup(allNodes, i)
           groupEndIndex == group[Len(group)]
       IN IF /\ Rec(allNodes[i + 1]).nodeType = 1
             /\ Len(group) > 1
             /\ groupEndIndex >= split
          THEN i
          ELSE adjustLoop(allNodes, split, i - 1)

\* variant: the scan runs forward from index 0
adjustSplitForKeepTogetherForward(allNodes, split) ==
  LET S == {i \in 0..(split - 1) :
              /\ Rec(allNodes[i + 1]).nodeType = 1
              /\ getKeepTogetherGroup(allNodes, i)[Len(getKeepTogetherGroup(allNodes, i))] >= split}
  IN IF S = {} THEN split ELSE CHOOSE i \in S : \A j \in S : i <= j

adjustSplitForKeepTogether(allNodes, split) == adjustLoop(allNodes, split, split - 1)

\* --------------------------------------------------------- content splitter
RECURSIVE measureLoop(_, _, _, _)
measureLoop(allNodes, availableHeight, i, currentHeight) ==
  IF i >= Len(allNodes) THEN -1
  ELSE LET nodeHeight == tempDivScrollHeight(allNodes, i) - currentHeight
       IN IF currentHeight + nodeHeight > availableHeight THEN i
          ELSE measureLoop(allNodes, availableHeight, i + 1,
                           tempDivScrollHeight(allNodes, i))

\* variant: a node is a split point only if it alone is taller than the page
computeSplitIndexNodeAlone(allNodes, availableHeight) ==
  LET S == {i \in 0..(Len(allNodes) - 1) : Rec(allNodes[i + 1]).height > availableHeight}
  IN IF S = {} THEN -1 ELSE CHOOSE i \in S : \A j \in S : i <= j

\* variant: once the content is found too tall, only its last node is split off
computeSplitIndexLastNode(allNodes, availableHeight) ==
  IF measureLoop(allNodes, availableHeight, 0, 0) >= 0 THEN Len(allNodes) - 1 ELSE -1

\* variant: the first node is never a split point
computeSplitIndexKeepFirst(allNodes, availableHeight) ==
  measureLoop(allNodes, availableHeight, 1, tempDivScrollHeight(allNodes, 0))

computeSplitIndex(allNodes, availableHeight) ==
  measureLoop(allNodes, availableHeight, 0, 0)

\* ------------------------------------------------------------ page factory
PageRec(hasContent, kids, ord) == [content |-> hasContent, children |-> kids, id |-> ord]

\* the element built from the page template: class document-container,
\* id page-<count>, a content area holding the template's whitespace text
createNewPageElement(count) == PageRec(TRUE, <<0>>, count)

\* variant: the new page is inserted in front of the first page
addNewPageAtFront(ps, count) == <<createNewPageElement(count)>> \o ps

\* insertAdjacentElement('afterend') on the last .document-container
addNewPage(ps, count) == Append(ps, createNewPageElement(count))

\* --------------------------------------------------------- cursor relocator
\* textContent.trim().length: of the kinds here only the whitespace text is
\* all whitespace
trimmedLength(r) == IF r = WsText THEN 0 ELSE r.textLen

\* findFirstTextNode over the children of a content area, depth first: the
\* node whose text comes first, -1 for null
RECURSIVE findFirstTextNode(_)
findFirstTextNode(kids) ==
  IF kids = <<>> THEN -1
  ELSE IF trimmedLength(Rec(Head(kids))) > 0 THEN Head(kids)
  ELSE findFirstTextNode(Tail(kids))

\* variant: the caret goes to the first node whether it bears text or not
handleCursorMovementFirstChild(ps, q) ==
  [page |-> q, node |-> IF ps[q].children = <<>> THEN -1 ELSE Head(ps[q].children)]

\* the selection handleCursorMovement leaves: a caret at offset 0 of the first
\* text node of the content area of page q, or a range collapsed at the start
\* of that content area (node -1)
handleCursorMovement(ps, q) == [page |-> q, node |-> findFirstTextNode(ps[q].children)]

\* ------------------------------------------------------------ content mover
\* nodesToMove.forEach(node => fragment.appendChild(node)): the tail leaves
\* its page and is held by the fragment only
detachTail(ps, k, adjusted) ==
  [ps EXCEPT ![k].children = SubSeq(ps[k].children, 1, adjusted)]

\* nextContent.innerHTML.includes('Continue your content here')
hasPlaceholder(kids) == \E j \in 1..Len(kids) : Rec(kids[j]).placeholder

\* the pages after the tail of page k, from index adjusted on, has been
\* prepended to the content area of page k+1
moveContentToNextPage(ps, k, adjusted) ==
  LET nodesToMove == SubSeq(ps[k].children, adjusted + 1, Len(ps[k].children))
      kept == IF hasPlaceholder(ps[k + 1].children) THEN <<>> ELSE ps[k + 1].children
  IN [detachTail(ps, k, adjusted) EXCEPT ![k + 1].children = nodesToMove \o kept]

\* ---------------------------------------------------------------- debounce
\* the debounced functions: the mutation-triggered and the typing-triggered
\* overflow check, and the jest.fn() the unit tests debounce
Debounced == {"mutation", "typing", "mock"}

\* the arguments the unit tests call the debounced jest.fn() with
Args == {"arg1", "arg2", "arg3"}

\* a timer: the function it will call, when it is due, the arguments
Timer(f, due, args) == [fn |-> f, due |-> due, args |-> args]
\* undefined / null: the value of a timer handle before the first setTimeout
NoTimer == Timer("none", -1, "none")

\* the delay each debounced function was created with
Delay(f) == IF f = "mutation" THEN OVERFLOW_CHECK ELSE INPUT_CHECK

\* no trigger yet
Quiet == [triggered |-> FALSE, at |-> 0, args |-> "none", cancelled |-> FALSE,
          fired |-> 0, firedAt |-> 0, firedArgs |-> "none"]

\* variant: clearTimeout leaves the timer pending
clearTimeoutNoOp(ts, id) == ts

clearTimeout(ts, id) == ts \ {id}

setTimeout(ts, f, args, delay) == ts \cup {Timer(f, now + delay, args)}

\* a timer that is due; it runs before time advances and before any event
\* dispatched at the same instant
Due(t) == t \in timers /\ t.due <= now

\* the trigger comes less than the delay after the previous one
InBurst(f) == bursts[f].triggered /\ now < bursts[f].at + Delay(f)

\* a trigger of the debounced function f with arguments args
Triggered(f, args) ==
  bursts' = [bursts EXCEPT ![f] =
    [Quiet EXCEPT !.triggered = TRUE, !.at = now, !.args = args,
                  !.cancelled = InBurst(f)]]

\* the wrapper debounce returns, called with args: clearTimeout(timeoutId),
\* then setTimeout(() => func.apply(this, args), delay)
debounced(ts, id, f, args) == setTimeout(clearTimeout(ts, id), f, args, Delay(f))

\* the timer t calls its function
Invoked(t) ==
  bursts' = [bursts EXCEPT ![t.fn].fired = @ + 1, ![t.fn].firedAt = now,
                           ![t.fn].firedArgs = t.args]

\* -------------------------------------------------------- change observers
\* a connected MutationObserver and the content areas (by page position) it
\* was told to observe
Observer(id, areas) == [id |-> id, areas |-> areas]

\* document.querySelectorAll('.editable-content'), by page position
ContentAreas(ps) == {q \in 1..Len(ps) : ps[q].content}

\* the observers of the page manager, as one value
Monitor == [observers |-> observers, contentObserver |-> contentObserver,
            records |-> records]

\* variant: disconnect leaves the observer connected
disconnectNoOp(m, id) == m

\* observer.disconnect(): the observer stops observing and its queue of
\* records is emptied
disconnect(m, id) ==
  [m EXCEPT !.observers = {o \in @ : o.id # id}, !.records = @ \ {id}]

\* the identities a new observer can take
FreeIds(m) == {i \in 1..MaxObservers : \A o \in m.observers : o.id # i}

\* setupContentMonitoring over the pages ps
setupContentMonitoring(m, ps) ==
  LET off == IF m.contentObserver # 0 THEN disconnect(m, m.contentObserver) ELSE m
      id == CHOOSE i \in FreeIds(off) : \A j \in FreeIds(off) : i <= j
  IN [off EXCEPT !.observers = @ \cup {Observer(id, ContentAreas(ps))},
                 !.contentObserver = id]

\* a change of the children or the text inside the content area of page q:
\* every observer of that area gets a record
mutated(m, q) ==
  [m EXCEPT !.records = @ \cup {o.id : o \in {x \in m.observers : q \in x.areas}}]

\* element.matches('.table-of-contents')
isTOC(r) == r.tagName = "DIV"

\* the pages whose content area holds a table of contents
pagesWithTOC(ps) ==
  {q \in ContentAreas(ps) :
     \E j \in 1..Len(ps[q].children) : isTOC(Rec(ps[q].children[j]))}

\* updateAllTOCs: tocContent.innerHTML is assigned in every table of contents,
\* which replaces the children of an element inside the content area
updateAllTOCs(m, ps) ==
  [m EXCEPT !.records =
     @ \cup {o.id : o \in {x \in m.observers : x.areas \cap pagesWithTOC(ps) # {}}}]

\* if (window.updateAllTOCs) window.updateAllTOCs(): the global is set by
\* DocumentEngine.initialize
updateAllTOCsIfDefined(m, ps) ==
  IF lifecycle = "constructed" THEN m ELSE updateAllTOCs(m, ps)

SetMonitor(m) ==
  /\ observers' = m.observers
  /\ contentObserver' = m.contentObserver
  /\ records' = m.records

\* ---------------------------------------------------------- margin guides
\* the class list of the page createNewPageElement builds for position q
withNewPageMargins(sm, q) == IF sm # {} THEN sm \cup {q} ELSE sm

\* ---------------------------------------------------------------- storage
\* nothing stored under 'document-multipages' / 'document-autosave'
NoDoc == [version |-> "none", pages |-> <<>>, content |-> <<>>]
EmptyStorage == [current |-> NoDoc, legacy |-> <<>>]

\* no selection yet
NoCaret == [page |-> 0, node |-> -1]

\* ------------------------------------------------------------------- Init
None == [moved |-> 0, created |-> 0, outcome |-> "none"]

Ids(a, b) == [i \in 1..(b - a) |-> a + i]

\* a document of at most maxNodes nodes of the given kinds laid out on 1..maxPages
\* pages; at most one page has no content area, and it holds no node
InitWith(Kinds, maxNodes, maxPages, mayLackContent) ==
  \E n \in 0..maxNodes :
  \E p \in 1..maxPages :
  \E cut \in [0..p -> 0..n] :
  \E has \in [1..p -> BOOLEAN] :
    /\ cut[0] = 0 /\ cut[p] = n
    /\ \A i \in 1..p : cut[i - 1] <= cut[i]
    /\ \A i \in 1..p : ~has[i] => (mayLackContent /\ cut[i - 1] = cut[i])
    /\ \A i, j \in 1..p : (~has[i] /\ ~has[j]) => i = j
    /\ node \in [1..n -> Kinds]
    /\ pages = [i \in 1..p |-> PageRec(has[i], Ids(cut[i - 1], cut[i]), i)]
    /\ original = pages
    /\ pageCount = p
    /\ isProcessingOverflow = FALSE
    /\ pc = "idle"
    /\ containers = 0
    /\ index = 0
    /\ tempDivs = 0
    /\ followUps = 0
    /\ focus = 0
    /\ splitIndex = -1
    /\ error = "none"
    /\ guarded = FALSE
    /\ log = <<>>
    /\ arrived = <<>>
    /\ cur = None
    /\ last = None
    /\ prev = None
    /\ now = 0
    /\ timers = {}
    /\ timeoutId = NoTimer
    /\ overflowTimeout = NoTimer
    /\ mockTimeoutId = NoTimer
    /\ bursts = [f \in Debounced |-> Quiet]
    /\ contentObserver = 1
    /\ observers = {Observer(1, ContentAreas(pages))}
    /\ records = {}
    /\ showMargins = {}
    /\ toggles = 0
    /\ localStorage = EmptyStorage
    /\ autoSaveInterval = 1
    /\ intervals = {1}
    /\ caret = NoCaret
    /\ scrolledTo = 0
    /\ lifecycle = "running"

Init == InitWith(BlockKinds, MaxNodes, MaxInitPages, TRUE)

InitKeep == InitWith(KeepKinds, MaxKeepNodes, 1, FALSE)

InitRule == InitWith(RuleKinds, MaxRuleNodes, 1, FALSE)

InitEdge == InitWith(EdgeKinds, MaxNodes, MaxInitPages, FALSE)

InitCursor == InitWith(CursorKinds, MaxNodes, MaxInitPages, FALSE)

\* a short document on one page
InitTyped == InitWith(EdgeKinds, MaxTypedNodes, 1, FALSE)

\* the document of the debounce unit tests: no page wrapper, no page
InitMockTest ==
  /\ node = <<>>
  /\ pages = <<>>
  /\ original = pages
  /\ pageCount = 1
  /\ isProcessingOverflow = FALSE
  /\ pc = "idle"
  /\ containers = 0
  /\ index = 0
  /\ tempDivs = 0
  /\ followUps = 0
  /\ focus = 0
  /\ splitIndex = -1
  /\ error = "none"
  /\ guarded = FALSE
  /\ log = <<>>
  /\ arrived = <<>>
  /\ cur = None
  /\ last = None
  /\ prev = None
  /\ now = 0
  /\ timers = {}
  /\ timeoutId = NoTimer
  /\ overflowTimeout = NoTimer
  /\ mockTimeoutId = NoTimer
  /\ bursts = [f \in Debounced |-> Quiet]
  /\ contentObserver = 0
  /\ observers = {}
  /\ records = {}
  /\ showMargins = {}
  /\ toggles = 0
  /\ localStorage = EmptyStorage
  /\ autoSaveInterval = 0
  /\ intervals = {}
  /\ caret = NoCaret
  /\ scrolledTo = 0
  /\ lifecycle = "constructed"

\* the document as index.html ships it: one page
InitOnePage == InitWith(EdgeKinds, MaxNodes, 1, FALSE)

\* ------------------------------------------------------------ orchestrator
\* variant: the exception leaves the flag as it is
ThrowNoFinally(e, summary) ==
  /\ isProcessingOverflow' = isProcessingOverflow
  /\ pc' = "idle"
  /\ error' = e
  /\ prev' = last
  /\ last' = [summary EXCEPT !.outcome = "threw"]
  /\ cur' = None

\* the pass leaves checkPageOverflow by an exception: the finally block
\* clears the flag, the rest of the forEach is abandoned
Throw(e, summary) ==
  /\ isProcessingOverflow' = FALSE
  /\ pc' = "idle"
  /\ error' = e
  /\ prev' = last
  /\ last' = [summary EXCEPT !.outcome = "threw"]
  /\ cur' = None

\* variant: no reentrancy guard
checkPageOverflowNoGuard ==
  /\ isProcessingOverflow' = TRUE
  /\ containers' = Len(pages)
  /\ index' = 0
  /\ pc' = "forEach"
  /\ log' = <<>>
  /\ arrived' = <<>>
  /\ cur' = [None EXCEPT !.outcome = "running"]
  /\ error' = "none"
  /\ guarded' = FALSE
  /\ UNCHANGED <<node, pages, pageCount, tempDivs, focus, splitIndex,
       original, last, prev>>

\* entry of checkPageOverflow: the reentrancy guard, then the flag and
\* getAllDocumentContainers(); timers are left to the caller
checkPageOverflow ==
  IF isProcessingOverflow
  THEN /\ guarded' = TRUE
       /\ UNCHANGED <<node, pages, pageCount, isProcessingOverflow, pc, containers,
            index, tempDivs, focus, splitIndex, error, original, log,
            arrived, cur, last, prev>>
  ELSE /\ isProcessingOverflow' = TRUE
       /\ containers' = Len(pages)
       /\ index' = 0
       /\ pc' = "forEach"
       /\ log' = <<>>
       /\ arrived' = <<>>
       /\ cur' = [None EXCEPT !.outcome = "running"]
       /\ error' = "none"
       /\ guarded' = FALSE
       /\ UNCHANGED <<node, pages, pageCount, tempDivs, focus,
            splitIndex, original, last, prev>>

\* a collaborator or an initial timer calls the global window.checkPageOverflow
\* as an event-loop task of its own
DirectCall ==
  /\ pc = "idle"
  /\ checkPageOverflow
  /\ UNCHANGED followUps
  /\ UNCHANGED debounceVars
  /\ UNCHANGED engineVars

\* a listener that runs synchronously inside a pass (focus, scroll, structure
\* change) calls the global window.checkPageOverflow
NestedCall ==
  /\ pc # "idle"
  /\ checkPageOverflow
  /\ UNCHANGED followUps
  /\ UNCHANGED debounceVars
  /\ UNCHANGED engineVars

\* variant: the pages are visited back to front
currentContainerReversed(i) == containers - i

\* the page the forEach callback is invoked with at a given index

currentContainer(i) == i + 1

\* variant: content that exceeds the capacity by exactly the tolerance is handled
ExaminePageAtTolerance ==
  /\ pc = "forEach"
  /\ index < containers
  /\ LET k == currentContainer(index)
         content == pages[k]
         visit == [page |-> k, children |-> IF content.content THEN content.children ELSE <<>>,
                   extent |-> IF content.content THEN scrollHeight(content) ELSE 0]
     IN /\ log' = Append(log, visit)
        /\ IF content.content /\ scrollHeight(content) >= clientHeight(content) + Tolerance
           THEN /\ tempDivs < MaxTempDivs
                /\ tempDivs' = tempDivs + 1
                /\ pc' = "measure"
                /\ index' = index
           ELSE /\ tempDivs' = tempDivs
                /\ pc' = "forEach"
                /\ index' = index + 1
  /\ UNCHANGED <<node, pages, pageCount, isProcessingOverflow, containers, followUps,
       focus, splitIndex, error, guarded, original, arrived, cur, last, prev>>
  /\ UNCHANGED debounceVars
  /\ UNCHANGED engineVars

\* variant: the forEach runs over a live list of the pages
ExaminePageLive ==
  /\ pc = "forEach"
  /\ index < Len(pages)
  /\ LET k == currentContainer(index)
         content == pages[k]
         visit == [page |-> k, children |-> IF content.content THEN content.children ELSE <<>>,
                   extent |-> IF content.content THEN scrollHeight(content) ELSE 0]
     IN /\ log' = Append(log, visit)
        /\ IF content.content /\ scrollHeight(content) > clientHeight(content) + Tolerance
           THEN /\ tempDivs < MaxTempDivs
                /\ tempDivs' = tempDivs + 1
                /\ pc' = "measure"
                /\ index' = index
           ELSE /\ tempDivs' = tempDivs
                /\ pc' = "forEach"
                /\ index' = index + 1
  /\ UNCHANGED <<node, pages, pageCount, isProcessingOverflow, containers, followUps,
       focus, splitIndex, error, guarded, original, arrived, cur, last, prev>>
  /\ UNCHANGED debounceVars
  /\ UNCHANGED engineVars

\* one invocation of the forEach callback up to the overflow test; for an
\* overflowing page handlePageOverflow starts with createMeasurementContainer
ExaminePage ==
  /\ pc = "forEach"
  /\ index < containers
  /\ LET k == currentContainer(index)
         content == pages[k]
         visit == [page |-> k, children |-> IF content.content THEN content.children ELSE <<>>,
                   extent |-> IF content.content THEN scrollHeight(content) ELSE 0]
     IN /\ log' = Append(log, visit)
        /\ IF content.content /\ scrollHeight(content) > clientHeight(content) + Tolerance
           THEN /\ tempDivs < MaxTempDivs
                /\ tempDivs' = tempDivs + 1
                /\ pc' = "measure"
                /\ index' = index
           ELSE /\ tempDivs' = tempDivs
                /\ pc' = "forEach"
                /\ index' = index + 1
  /\ UNCHANGED <<node, pages, pageCount, isProcessingOverflow, containers, followUps,
       focus, splitIndex, error, guarded, original, arrived, cur, last, prev>>
  /\ UNCHANGED debounceVars
  /\ UNCHANGED engineVars

\* splitContentAtIndex for the page at position k, tempDiv already removed
splitContentAtIndex(k, allNodes, split) ==
  LET adjustedSplitIndex == adjustSplitForKeepTogether(allNodes, split)
      needsPage == k = Len(pages)
      count == IF needsPage THEN pageCount + 1 ELSE pageCount
      withNext == IF needsPage THEN addNewPage(pages, count) ELSE pages
      nextContent == withNext[k + 1].content
      nodesToMove == SubSeq(allNodes, adjustedSplitIndex + 1, Len(allNodes))
      summary == [cur EXCEPT !.moved = @ + Len(nodesToMove),
                             !.created = @ + (IF needsPage THEN 1 ELSE 0)]
      \* addNewPage re-registers the observer and refreshes the tables of contents
      monitor == IF needsPage
                 THEN updateAllTOCsIfDefined(setupContentMonitoring(Monitor, withNext), withNext)
                 ELSE Monitor
  IN /\ needsPage => (Len(pages) < MaxPages /\ Cardinality(observers) < MaxObservers)
     /\ pageCount' = count
     /\ showMargins' = IF needsPage THEN withNewPageMargins(showMargins, k + 1) ELSE showMargins
     /\ UNCHANGED <<toggles, localStorage, autoSaveInterval, intervals, lifecycle>>
     /\ IF nextContent
        THEN /\ followUps < MaxTimers
             /\ pages' = moveContentToNextPage(withNext, k, adjustedSplitIndex)
             /\ SetMonitor(mutated(mutated(monitor, k), k + 1))
             /\ caret' = IF Len(allNodes) > adjustedSplitIndex
                         THEN handleCursorMovement(pages', k + 1) ELSE caret
             /\ scrolledTo' = IF Len(allNodes) > adjustedSplitIndex THEN k + 1 ELSE scrolledTo
             /\ arrived' = Append(arrived, [to |-> k + 1, nodes |-> nodesToMove])
             /\ focus' = k + 1
             /\ followUps' = followUps + 1
             /\ cur' = summary
             /\ index' = index + 1
             /\ pc' = "forEach"
             /\ UNCHANGED <<isProcessingOverflow, error, last, prev>>
        ELSE \* nextContent is null: the tail is already in the fragment when
             \* nextContent.innerHTML raises a TypeError
             /\ pages' = detachTail(withNext, k, adjustedSplitIndex)
             /\ SetMonitor(mutated(monitor, k))
             /\ Throw("TypeError", summary)
             /\ UNCHANGED <<arrived, focus, followUps, index, caret, scrolledTo>>

\* the rest of handlePageOverflow: the measuring loop, removal of the tempDiv
\* and the split; cloning or measuring may fail
HandlePageOverflow ==
  /\ pc = "measure"
  /\ LET k == currentContainer(index)
         allNodes == pages[k].children
         split == computeSplitIndex(allNodes, clientHeight(pages[k]))
     IN \/ /\ Throw("MeasureError", cur)
           /\ UNCHANGED <<pages, pageCount, tempDivs, followUps, focus, splitIndex,
                index, arrived>>
           /\ UNCHANGED engineVars
        \/ /\ tempDivs' = tempDivs - 1
           /\ splitIndex' = split
           /\ IF split >= 0
              THEN splitContentAtIndex(k, allNodes, split)
              ELSE /\ index' = index + 1
                   /\ pc' = "forEach"
                   /\ UNCHANGED <<pages, pageCount, followUps, focus, arrived, cur,
                        isProcessingOverflow, error, last, prev>>
                   /\ UNCHANGED engineVars
  /\ UNCHANGED <<node, containers, guarded, original, log>>
  /\ UNCHANGED debounceVars

\* the forEach is through: the finally block clears the flag and the call returns
EndPass ==
  /\ pc = "forEach"
  /\ index >= containers
  /\ isProcessingOverflow' = FALSE
  /\ pc' = "idle"
  /\ prev' = last
  /\ last' = [cur EXCEPT !.outcome = "returned"]
  /\ cur' = None
  /\ UNCHANGED <<node, pages, pageCount, containers, index, tempDivs, followUps, focus,
       splitIndex, error, guarded, original, log, arrived>>
  /\ UNCHANGED debounceVars
  /\ UNCHANGED engineVars

\* variant: the follow-up call is made synchronously, inside the pass
TimerFiresSynchronously ==
  /\ pc # "idle"
  /\ followUps > 0
  /\ followUps' = followUps - 1
  /\ checkPageOverflow
  /\ UNCHANGED debounceVars
  /\ UNCHANGED engineVars

\* a follow-up timer set by splitContentAtIndex expires
TimerFires ==
  /\ pc = "idle"
  /\ followUps > 0
  /\ followUps' = followUps - 1
  /\ checkPageOverflow
  /\ UNCHANGED debounceVars
  /\ UNCHANGED engineVars

Next ==
  \/ DirectCall
  \/ NestedCall
  \/ TimerFires
  \/ ExaminePage
  \/ HandlePageOverflow
  \/ EndPass

Spec == Init /\ [][Next]_vars

SpecKeep == InitKeep /\ [][Next]_vars

\* the Add Page button: window.addNewPage = () => pageManager.addNewPage(true),
\* a task of its own; the new page gets the focus
AddPageClick ==
  /\ pc = "idle"
  /\ Len(pages) < MaxPages
  /\ pageCount <= MaxPages
  /\ Cardinality(observers) < MaxObservers
  /\ pageCount' = pageCount + 1
  /\ IF pages = <<>>
     THEN \* no page wrapper or no page in it: a TypeError after the increment
          /\ UNCHANGED <<pages, focus>>
          /\ UNCHANGED engineVars
     ELSE /\ pages' = addNewPage(pages, pageCount + 1)
          /\ SetMonitor(updateAllTOCsIfDefined(setupContentMonitoring(Monitor, pages'), pages'))
          /\ showMargins' = withNewPageMargins(showMargins, Len(pages) + 1)
          \* focusNewPage: setCursorPosition(newContent, 0)
          /\ focus' = Len(pages) + 1
          /\ caret' = [page |-> Len(pages) + 1, node |-> -1]
          /\ scrolledTo' = Len(pages) + 1
          /\ UNCHANGED <<toggles, localStorage, autoSaveInterval, intervals, lifecycle>>
  /\ UNCHANGED <<node, isProcessingOverflow, pc, containers, index, tempDivs, followUps,
       splitIndex, error, guarded, original, log, arrived, cur, last, prev>>
  /\ UNCHANGED debounceVars

NextPages ==
  \/ Next
  \/ AddPageClick

SpecPages == InitOnePage /\ [][NextPages]_vars

\* handlePageOverflow when cloning and measuring do not fail
HandlePageOverflowMeasured == HandlePageOverflow /\ tempDivs' = tempDivs - 1

NextFollowUp ==
  \/ DirectCall
  \/ NestedCall
  \/ TimerFires
  \/ ExaminePage
  \/ HandlePageOverflowMeasured
  \/ EndPass

\* a pass is synchronous code that runs to its end; a timer that stays
\* pending is run by the event loop
SpecFollowUp ==
  /\ InitOnePage
  /\ [][NextFollowUp]_vars
  /\ WF_vars(TimerFires)
  /\ WF_vars(ExaminePage)
  /\ WF_vars(HandlePageOverflowMeasured)
  /\ WF_vars(EndPass)

passVars == <<node, pages, pageCount, isProcessingOverflow, pc, containers, index,
  tempDivs, followUps, focus, splitIndex, error, guarded, original, log,
  arrived, cur, last, prev>>

\* what the callbacks of the observers leave alone
shellVars == <<showMargins, toggles, localStorage, autoSaveInterval, intervals, caret,
  scrolledTo, lifecycle>>

\* the MutationObserver callback, run with the records taken from the queues:
\* this.debouncedOverflowCheck(), then window.updateAllTOCs() if it is defined
contentObserverCallback(m) ==
  /\ Triggered("mutation", "none")
  /\ timers' = debounced(timers, timeoutId, "mutation", "none")
  /\ timeoutId' = Timer("mutation", now + Delay("mutation"), "none")
  /\ SetMonitor(updateAllTOCsIfDefined([m EXCEPT !.records = {}], pages))
  /\ UNCHANGED <<now, overflowTimeout, mockTimeoutId>>
  /\ UNCHANGED passVars
  /\ UNCHANGED shellVars

\* a change of the content that leaves the layout as it is, and the callback
\* that follows it as a microtask
MutationObserved ==
  /\ pc = "idle"
  /\ \E q \in 1..Len(pages) : pages[q].content
  /\ ~\E t \in timers : Due(t)
  /\ contentObserverCallback(Monitor)

\* the user changes the content of page q once, leaving the layout as it is
ContentChanged(q) ==
  /\ pc = "idle"
  /\ q \in ContentAreas(pages)
  /\ records = {}
  /\ ~bursts["mutation"].triggered
  /\ SetMonitor(mutated(Monitor, q))
  /\ UNCHANGED passVars
  /\ UNCHANGED debounceVars
  /\ UNCHANGED shellVars

\* the queued records are delivered: a microtask, which runs as soon as the
\* running task has returned and before any other task
RecordsDelivered ==
  /\ pc = "idle"
  /\ records # {}
  /\ contentObserverCallback(Monitor)

\* the input listener of setupInputMonitoring for an event inside a content area
InputEvent ==
  /\ pc = "idle"
  /\ \E q \in 1..Len(pages) : pages[q].content
  /\ ~\E t \in timers : Due(t)
  /\ Triggered("typing", "none")
  /\ timers' = setTimeout(clearTimeout(timers, overflowTimeout), "typing", "none", INPUT_CHECK)
  /\ overflowTimeout' = Timer("typing", now + INPUT_CHECK, "none")
  /\ UNCHANGED <<now, timeoutId, mockTimeoutId>>
  /\ UNCHANGED passVars
  /\ UNCHANGED engineVars

\* a unit test calls its debounced jest.fn()
MockCalled(args) ==
  /\ pc = "idle"
  /\ pages = <<>>
  /\ ~\E t \in timers : Due(t)
  /\ Triggered("mock", args)
  /\ timers' = debounced(timers, mockTimeoutId, "mock", args)
  /\ mockTimeoutId' = Timer("mock", now + Delay("mock"), args)
  /\ UNCHANGED <<now, timeoutId, overflowTimeout>>
  /\ UNCHANGED passVars
  /\ UNCHANGED engineVars

\* 100 ms pass with no timer due
Tick ==
  /\ pc = "idle"
  /\ ~\E t \in timers : Due(t)
  /\ now + 100 <= MaxClock
  /\ now' = now + 100
  /\ UNCHANGED <<timers, timeoutId, overflowTimeout, mockTimeoutId, bursts>>
  /\ UNCHANGED passVars
  /\ UNCHANGED engineVars

\* a timer of one of the debounced overflow checks runs: checkPageOverflow
OverflowCheckDue ==
  /\ pc = "idle"
  /\ \E t \in timers :
       /\ Due(t)
       /\ t.fn \in {"mutation", "typing"}
       /\ timers' = timers \ {t}
       /\ Invoked(t)
  /\ checkPageOverflow
  /\ UNCHANGED <<followUps, now, timeoutId, overflowTimeout, mockTimeoutId>>
  /\ UNCHANGED engineVars

\* the timer of the debounced jest.fn() runs
MockDue ==
  /\ pc = "idle"
  /\ \E t \in timers :
       /\ Due(t)
       /\ t.fn = "mock"
       /\ timers' = timers \ {t}
       /\ Invoked(t)
  /\ UNCHANGED <<now, timeoutId, overflowTimeout, mockTimeoutId>>
  /\ UNCHANGED passVars
  /\ UNCHANGED engineVars

NextDebounce ==
  \/ MutationObserved
  \/ InputEvent
  \/ \E args \in Args : MockCalled(args)
  \/ Tick
  \/ OverflowCheckDue
  \/ MockDue
  \/ TimerFires
  \/ ExaminePage
  \/ HandlePageOverflow
  \/ EndPass

SpecDebounce == (InitTyped \/ InitMockTest) /\ [][NextDebounce]_vars

SpecRule == InitRule /\ [][Next]_vars

SpecEdge == InitEdge /\ [][Next]_vars

SpecCursor == InitCursor /\ [][Next]_vars

\* timers are tasks: the event loop starts one only when no microtask is pending
FollowUpTask == records = {} /\ TimerFires

DebouncedCheckTask == records = {} /\ OverflowCheckDue

TimePasses == records = {} /\ Tick

\* documents with and without a table of contents
ChangeKinds == {Para, Toc}

InitChange == InitWith(ChangeKinds, MaxTypedNodes, 1, FALSE)

NextChange ==
  \/ \E q \in 1..MaxPages : ContentChanged(q)
  \/ RecordsDelivered
  \/ TimePasses
  \/ DebouncedCheckTask
  \/ FollowUpTask
  \/ ExaminePage
  \/ HandlePageOverflowMeasured
  \/ EndPass

\* microtasks and the synchronous steps of a pass run to their end; the event
\* loop runs a timer that is due; time passes
SpecChange ==
  /\ InitChange
  /\ [][NextChange]_vars
  /\ WF_vars(RecordsDelivered)
  /\ WF_vars(TimePasses)
  /\ WF_vars(DebouncedCheckTask)
  /\ WF_vars(FollowUpTask)
  /\ WF_vars(ExaminePage)
  /\ WF_vars(HandlePageOverflowMeasured)
  /\ WF_vars(EndPass)

\* ------------------------------------------------------------------ engine
\* delay of the timer loadDocumentData sets to re-setup monitoring, in ms
RELOAD_DELAY == 100

\* documents of paragraphs of which one fits a page and two do not
EngineKinds == {Para}

Doc(v, ps, c) == [version |-> v, pages |-> ps, content |-> c]

\* the storage manager's timer state
AutoSave == [autoSaveInterval |-> autoSaveInterval, intervals |-> intervals]

\* variant: the running interval timer is left running
stopAutoSaveNoOp(a) == a

\* clearInterval on the handle, if there is one, and the handle is forgotten
stopAutoSave(a) ==
  IF a.autoSaveInterval # 0
  THEN [autoSaveInterval |-> 0, intervals |-> a.intervals \ {a.autoSaveInterval}]
  ELSE a

\* stopAutoSave(), then setInterval, which returns a new handle: one that no
\* active timer has and that differs from the one just cleared
initAutoSave(a) ==
  LET off == stopAutoSave(a)
      free == (1..MaxIntervals) \ (off.intervals \cup {a.autoSaveInterval})
      id == CHOOSE i \in free : \A j \in free : i <= j
  IN [autoSaveInterval |-> id, intervals |-> off.intervals \cup {id}]

SetAutoSave(a) == autoSaveInterval' = a.autoSaveInterval /\ intervals' = a.intervals

\* the stored document, else the legacy content converted to a document of
\* version 1.0 with one page, else null
loadFromLocalStorage(st) ==
  IF st.current # NoDoc THEN st.current
  ELSE IF st.legacy # <<>> THEN Doc("1.0", <<st.legacy>>, <<>>)
  ELSE NoDoc

\* what the loaders and clearDocument work on: the pages, the page count, the
\* observers and the margin classes
Dom == [pages |-> pages, pageCount |-> pageCount, monitor |-> Monitor,
  showMargins |-> showMargins]

SetDom(d) ==
  /\ pages' = d.pages
  /\ pageCount' = d.pageCount
  /\ SetMonitor(d.monitor)
  /\ showMargins' = d.showMargins

\* containers[i].remove() for every page but the first; what an observer
\* watched on a removed page is out of the document
firstPageOnly(d) ==
  [pages |-> <<d.pages[1]>>,
   pageCount |-> d.pageCount,
   monitor |-> [d.monitor EXCEPT
     !.observers = {Observer(o.id, o.areas \cap {1}) : o \in d.monitor.observers}],
   showMargins |-> d.showMargins \cap {1}]

\* content.innerHTML = ...: the children of the content area of page q are
\* replaced, which the observers of that area record
setInnerHTML(d, q, kids) ==
  [d EXCEPT !.pages[q].children = kids, !.monitor = mutated(d.monitor, q)]

\* the loop of loadDocumentData over doc.pages[1..]: addNewPage(), then the
\* content of the page just added
RECURSIVE createAdditionalPages(_, _)
createAdditionalPages(d, rest) ==
  IF rest = <<>> THEN d
  ELSE LET count == d.pageCount + 1
           ps == addNewPage(d.pages, count)
           added == [pages |-> ps,
                     pageCount |-> count,
                     monitor |-> updateAllTOCs(setupContentMonitoring(d.monitor, ps), ps),
                     showMargins |-> withNewPageMargins(d.showMargins, Len(ps))]
       IN createAdditionalPages(setInnerHTML(added, Len(ps), Head(rest)), Tail(rest))

\* Toolbar.loadDocumentData up to its timer, for a document with a first page
loadDocumentData(d, doc) ==
  LET cleared == [firstPageOnly(d) EXCEPT !.pageCount = 1]
  IN IF doc.version \in {"2.0", "3.0"} /\ doc.pages # <<>>
     THEN createAdditionalPages(setInnerHTML(cleared, 1, Head(doc.pages)), Tail(doc.pages))
     ELSE IF doc.content # <<>>
     THEN setInnerHTML(cleared, 1, doc.content)
     ELSE cleared

\* innerHTML.trim() is '' (or '<br>'): whitespace text at most
isBlank(kids) == \A j \in 1..Len(kids) : Rec(kids[j]) = WsText

\* the <p><br></p> that initializeDocument creates
NewParagraph == Len(node)

\* ContentEditor.initializeDocument: every blank content area gets an empty
\* paragraph
initializeDocument(d) ==
  LET blank == {q \in ContentAreas(d.pages) : isBlank(d.pages[q].children)}
  IN [d EXCEPT
       !.pages = [q \in 1..Len(d.pages) |->
                    IF q \in blank THEN [d.pages[q] EXCEPT !.children = <<NewParagraph>>]
                    ELSE d.pages[q]],
       !.monitor = [d.monitor EXCEPT
         !.records = @ \cup {o.id : o \in {x \in d.monitor.observers : x.areas \cap blank # {}}}]]

\* DocumentEngine.loadAutoSave
loadAutoSave(d, st) ==
  LET doc == loadFromLocalStorage(st)
  IN IF doc # NoDoc THEN loadDocumentData(d, doc)
     ELSE IF st.legacy # <<>> THEN setInnerHTML(d, 1, st.legacy)
     ELSE d

\* what the engine leaves alone outside a pass
passState == <<node, isProcessingOverflow, pc, containers, index, tempDivs, splitIndex,
  error, guarded, original, log, arrived, cur, last, prev>>

\* DocumentEngine.initialize: PageManager.initialize (the page count, the
\* observer, a first check after 100 ms), the stored document, the document
\* structure, auto-save, and a check after 500 ms
Initialize ==
  /\ lifecycle = "constructed"
  /\ followUps + 2 <= MaxTimers
  /\ LET counted == [Dom EXCEPT
           !.pageCount = IF Len(pages) = 0 THEN 1 ELSE Len(pages),
           !.monitor = setupContentMonitoring(Monitor, pages)]
         doc == loadFromLocalStorage(localStorage)
     IN /\ SetDom(initializeDocument(loadAutoSave(counted, localStorage)))
        /\ timers' = IF doc # NoDoc
                     THEN setTimeout(timers, "reload", "none", RELOAD_DELAY)
                     ELSE timers
  /\ SetAutoSave(initAutoSave(AutoSave))
  /\ followUps' = followUps + 2
  /\ lifecycle' = "running"
  /\ UNCHANGED passState
  /\ UNCHANGED <<focus, now, timeoutId, overflowTimeout, mockTimeoutId, bursts, toggles,
       localStorage, caret, scrolledTo>>

\* the documents validateDocument accepts
Imported ==
  {Doc("3.0", <<<<2>>, <<3>>>>, <<>>), Doc("3.0", <<<<2, 3>>>>, <<>>),
   Doc("1.0", <<<<2>>>>, <<3>>), Doc("1.0", <<<<2>>>>, <<>>)}

\* the user loads a file: importFromJSON resolves and loadDocumentData runs
LoadDocument(doc) ==
  /\ lifecycle = "running"
  /\ pc = "idle"
  /\ pages # <<>>
  /\ ~\E t \in timers : t.fn = "reload"
  /\ SetDom(loadDocumentData(Dom, doc))
  /\ timers' = setTimeout(timers, "reload", "none", RELOAD_DELAY)
  /\ UNCHANGED passState
  /\ UNCHANGED <<followUps, focus, now, timeoutId, overflowTimeout, mockTimeoutId, bursts,
       toggles, localStorage, autoSaveInterval, intervals, caret, scrolledTo, lifecycle>>

\* the timer of loadDocumentData: setupContentMonitoring, checkPageOverflow,
\* updateAllTOCs
ReloadTimerFires ==
  /\ pc = "idle"
  /\ Cardinality(observers) < MaxObservers
  /\ \E t \in timers : t.fn = "reload" /\ timers' = timers \ {t}
  /\ SetMonitor(updateAllTOCs(setupContentMonitoring(Monitor, pages), pages))
  /\ checkPageOverflow
  /\ UNCHANGED <<followUps, now, timeoutId, overflowTimeout, mockTimeoutId, bursts>>
  /\ UNCHANGED shellVars

\* DocumentEngine.clearDocument
ClearDocument ==
  /\ lifecycle = "running"
  /\ pc = "idle"
  /\ localStorage' = EmptyStorage
  /\ IF pages = <<>>
     THEN /\ pageCount' = 1
          /\ UNCHANGED <<pages, contentObserver, observers, records, showMargins>>
     ELSE LET emptied == initializeDocument(setInnerHTML(firstPageOnly(Dom), 1, <<>>))
          IN SetDom([emptied EXCEPT !.pageCount = 1,
                                    !.monitor = updateAllTOCs(emptied.monitor, emptied.pages)])
  /\ UNCHANGED passState
  /\ UNCHANGED <<followUps, focus, toggles, autoSaveInterval, intervals, caret, scrolledTo,
       lifecycle>>
  /\ UNCHANGED debounceVars

\* variant: the class is toggled on the first page only
toggleMarginsFirstPage(sm, ps) == IF sm = {} THEN 1..Len(ps) ELSE sm \ {1}

\* showMargins = no element has the class yet; classList.toggle('show-margins',
\* showMargins) on every page
toggleMargins(sm, ps) == IF sm = {} THEN 1..Len(ps) ELSE {}

\* the Toggle Margins button
ToggleMarginsClick ==
  /\ lifecycle = "running"
  /\ pc = "idle"
  /\ showMargins' = toggleMargins(showMargins, pages)
  /\ toggles' = 1 - toggles
  /\ UNCHANGED passVars
  /\ UNCHANGED debounceVars
  /\ UNCHANGED <<contentObserver, observers, records, localStorage, autoSaveInterval,
       intervals, caret, scrolledTo, lifecycle>>

\* a call of storageManager.initAutoSave()
InitAutoSave ==
  /\ Cardinality(intervals) < MaxIntervals
  /\ SetAutoSave(initAutoSave(AutoSave))
  /\ UNCHANGED passVars
  /\ UNCHANGED debounceVars
  /\ UNCHANGED <<contentObserver, observers, records, showMargins, toggles, localStorage,
       caret, scrolledTo, lifecycle>>

\* a call of storageManager.stopAutoSave()
StopAutoSave ==
  /\ SetAutoSave(stopAutoSave(AutoSave))
  /\ UNCHANGED passVars
  /\ UNCHANGED debounceVars
  /\ UNCHANGED <<contentObserver, observers, records, showMargins, toggles, localStorage,
       caret, scrolledTo, lifecycle>>

\* the Add Page button once the toolbar is set up
AddPage == lifecycle = "running" /\ AddPageClick

\* index.html as shipped or edited (one page with at most one paragraph), or a
\* host page without page wrapper; the storage holds a document of an earlier
\* session, legacy content, both or nothing
InitEngine ==
  \E p \in 0..1 :
  \E n \in 0..p :
  \E stored \in {NoDoc, Doc("3.0", <<<<2>>, <<3>>>>, <<>>), Doc("2.0", <<<<2, 3>>>>, <<>>)} :
  \E legacy \in {<<>>, <<4>>} :
    /\ node \in {f \in [1..5 -> EngineKinds \cup {BlankPara}] :
                   /\ \A i \in 1..3 : f[i] \in EngineKinds
                   /\ f[4] = Para
                   /\ f[5] = BlankPara}
    /\ pages = [i \in 1..p |-> PageRec(TRUE, Ids(0, n), i)]
    /\ p = 0 => (stored = NoDoc /\ legacy = <<>>)
    /\ localStorage = [current |-> stored, legacy |-> legacy]
    /\ original = pages
    /\ pageCount = 1
    /\ isProcessingOverflow = FALSE
    /\ pc = "idle"
    /\ containers = 0
    /\ index = 0
    /\ tempDivs = 0
    /\ followUps = 0
    /\ focus = 0
    /\ splitIndex = -1
    /\ error = "none"
    /\ guarded = FALSE
    /\ log = <<>>
    /\ arrived = <<>>
    /\ cur = None
    /\ last = None
    /\ prev = None
    /\ now = 0
    /\ timers = {}
    /\ timeoutId = NoTimer
    /\ overflowTimeout = NoTimer
    /\ mockTimeoutId = NoTimer
    /\ bursts = [f \in Debounced |-> Quiet]
    /\ contentObserver = 0
    /\ observers = {}
    /\ records = {}
    /\ showMargins = {}
    /\ toggles = 0
    /\ autoSaveInterval = 0
    /\ intervals = {}
    /\ caret = NoCaret
    /\ scrolledTo = 0
    /\ lifecycle = "constructed"

NextEngine ==
  \/ Initialize
  \/ \E doc \in Imported : LoadDocument(doc)
  \/ ReloadTimerFires
  \/ ClearDocument
  \/ AddPage
  \/ TimerFires
  \/ ExaminePage
  \/ HandlePageOverflowMeasured
  \/ EndPass

SpecEngine == InitEngine /\ [][NextEngine]_vars

\* a document on one page, the engine running
InitShell == InitWith(EngineKinds, MaxTypedNodes, 1, FALSE)

NextShell ==
  \/ ToggleMarginsClick
  \/ AddPage
  \/ InitAutoSave
  \/ StopAutoSave
  \/ DirectCall
  \/ TimerFires
  \/ ExaminePage
  \/ HandlePageOverflowMeasured
  \/ EndPass

SpecShell == InitShell /\ [][NextShell]_vars

\* DocumentEngine.destroy: stopAutoSave(), and disconnect() on the observer
\* the page manager holds, if it holds one
Destroy ==
  /\ pc = "idle"
  /\ records = {}
  /\ lifecycle \in {"constructed", "running"}
  /\ SetAutoSave(stopAutoSave(AutoSave))
  /\ SetMonitor(IF contentObserver # 0 THEN disconnect(Monitor, contentObserver) ELSE Monitor)
  /\ lifecycle' = IF lifecycle = "running" THEN "destroyed" ELSE "discarded"
  /\ UNCHANGED passVars
  /\ UNCHANGED debounceVars
  /\ UNCHANGED <<showMargins, toggles, localStorage, caret, scrolledTo>>

\* the timer of loadDocumentData as a task of the event loop
ReloadTask == records = {} /\ ReloadTimerFires

\* the Add Page button: its handler stays bound after destroy()
AddPageTask == records = {} /\ lifecycle \in {"running", "destroyed"} /\ AddPageClick

NextTeardown ==
  \/ Initialize
  \/ Destroy
  \/ \E q \in 1..MaxPages : ContentChanged(q)
  \/ RecordsDelivered
  \/ ReloadTask
  \/ AddPageTask
  \/ FollowUpTask
  \/ ExaminePage
  \/ HandlePageOverflowMeasured
  \/ EndPass

SpecTeardown == InitEngine /\ [][NextTeardown]_vars

\* ---------------------------------------------------------------- settling
\* documents of paragraphs, headings, tables and tables of contents, every node
\* shorter than a page
SettleKinds == {Para, Heading, Table, Toc}

InitSettle == InitWith(SettleKinds, MaxSettleNodes, 1, FALSE)

\* the check that initialize schedules runs, as the first pass
InitialCheck == last = None /\ cur = None /\ records = {} /\ DirectCall

\* the timer of a debounced overflow check runs, however late: a task
DebouncedCheckRuns ==
  /\ pc = "idle"
  /\ records = {}
  /\ \E t \in timers :
       /\ t.fn \in {"mutation", "typing"}
       /\ timers' = timers \ {t}
       /\ Invoked(t)
  /\ checkPageOverflow
  /\ UNCHANGED <<followUps, now, timeoutId, overflowTimeout, mockTimeoutId>>
  /\ UNCHANGED engineVars

\* the delivery of the records a pass or the refresh of a table of contents
\* left, with time standing still
RecordsDeliveredAtOnce == RecordsDelivered /\ now' = now

NextSettle ==
  \/ InitialCheck
  \/ RecordsDeliveredAtOnce
  \/ DebouncedCheckRuns
  \/ FollowUpTask
  \/ ExaminePage
  \/ HandlePageOverflowMeasured
  \/ EndPass

\* no external edit: the initial check, then only what the engine schedules;
\* microtasks, the steps of a pass and pending timers all run in the end
SpecSettle ==
  /\ InitSettle
  /\ [][NextSettle]_vars
  /\ WF_vars(InitialCheck)
  /\ WF_vars(RecordsDeliveredAtOnce)
  /\ WF_vars(DebouncedCheckRuns)
  /\ WF_vars(FollowUpTask)
  /\ WF_vars(ExaminePage)
  /\ WF_vars(HandlePageOverflowMeasured)
  /\ WF_vars(EndPass)

\* a page whose content starts with something that may be taller than a page
InitOversize == InitWith(OversizeKinds, MaxSettleNodes, 1, FALSE)

SpecOversize == InitOversize /\ [][Next]_vars

\* ---------------------------------------------------------------- event loop
\* the timer callbacks of the collaborators (ContentEditor.handlePaste and the
\* insert and resize handlers) and the initial timers: window.checkPageOverflow
\* called from a setTimeout callback, a task
CollaboratorTask == records = {} /\ DirectCall

\* an input event inside a content area is dispatched: a task
InputTask == records = {} /\ InputEvent

\* every trigger of checkPageOverflow the composed system has, scheduled as the
\* event loop schedules it, and the steps of a pass, which may throw
NextLoop ==
  \/ CollaboratorTask
  \/ InputTask
  \/ \E q \in 1..MaxPages : ContentChanged(q)
  \/ RecordsDelivered
  \/ TimePasses
  \/ DebouncedCheckTask
  \/ FollowUpTask
  \/ ExaminePage
  \/ HandlePageOverflow
  \/ EndPass

SpecLoop == InitChange /\ [][NextLoop]_vars

\* ------------------------------------------------------------ save and import
\* content.innerHTML: the markup of the children, one piece per child node;
\* the empty string for a content area without children
innerHTML(content) == [j \in 1..Len(content.children) |-> [markup |-> content.children[j]]]

\* StorageManager.collectPages: one entry for every container that has a
\* content area, numbered by the position of the container
collectPages(ps) ==
  LET withContent == SelectSeq([q \in 1..Len(ps) |-> q], LAMBDA q : ps[q].content)
  IN [j \in 1..Len(withContent) |->
        [pageNumber |-> withContent[j], content |-> innerHTML(ps[withContent[j]])]]

\* the document object saveToLocalStorage builds (the fields that never vary,
\* format, margins and line spacing, and the timestamp are left out)
SavedDocument(ps) ==
  LET collected == collectPages(ps)
  IN [pages |-> collected, pageCount |-> Len(collected), version |-> "3.0"]

\* JSON.stringify(doc): the members of the object in insertion order
JSONstringify(doc) ==
  <<[key |-> "pages", array |-> doc.pages, scalar |-> 0],
    [key |-> "pageCount", array |-> <<>>, scalar |-> doc.pageCount],
    [key |-> "version", array |-> <<>>, scalar |-> doc.version]>>

\* doc[key] of JSON.parse(text) for an array member: undefined (here <<>> with
\* present FALSE) when the text has no such member
Member(text, key) ==
  IF \E j \in 1..Len(text) : text[j].key = key
  THEN [present |-> TRUE, array |-> text[CHOOSE j \in 1..Len(text) : text[j].key = key].array]
  ELSE [present |-> FALSE, array |-> <<>>]

\* StorageManager.validateDocument on the parsed text of a file: pages must be
\* an array, every page needs a truthy string content and a truthy number
\* pageNumber; the version only produces a warning
validateDocument(text) ==
  LET docPages == Member(text, "pages")
  IN /\ docPages.present
     /\ \A j \in 1..Len(docPages.array) :
          /\ docPages.array[j].content # <<>>
          /\ docPages.array[j].pageNumber # 0

\* what loadDocumentData reads of a stored document: the version and the
\* content of its pages as the nodes the markup describes
Stored(doc) ==
  Doc(doc.version,
      [j \in 1..Len(doc.pages) |->
         [i \in 1..Len(doc.pages[j].content) |-> doc.pages[j].content[i].markup]],
      <<>>)

\* StorageManager.saveToLocalStorage, called by the auto-save interval, the
\* Save button and exportToJSON: a task; the data attributes it sets are not
\* observed (the observers watch childList, subtree and characterData)
saveToLocalStorage ==
  /\ pc = "idle"
  /\ localStorage' = [localStorage EXCEPT !.current = Stored(SavedDocument(pages))]
  /\ UNCHANGED passVars
  /\ UNCHANGED debounceVars
  /\ UNCHANGED <<contentObserver, observers, records, showMargins, toggles,
       autoSaveInterval, intervals, caret, scrolledTo, lifecycle>>

\* documents of paragraphs that fit a page and paragraphs taller than a page
SaveKinds == {Para, Big}

\* every content area holds something, as after initializeDocument
InitSave ==
  /\ InitWith(SaveKinds, MaxNodes, MaxInitPages, FALSE)
  /\ \A q \in 1..Len(pages) : pages[q].children # <<>>

NextSave ==
  \/ Next
  \/ saveToLocalStorage

SpecSave == InitSave /\ [][NextSave]_vars

\* =================================================================== claims
RangeOf(seq) == {seq[j] : j \in 1..Len(seq)}

IsPrefix(a, b) == Len(a) <= Len(b) /\ SubSeq(b, 1, Len(a)) = a

\* block nodes of the document: neither template whitespace nor placeholder stubs
IsBlock(n) == n # 0 /\ ~Rec(n).placeholder

BlocksOf(ps) == SelectSeq(Concat(ps), IsBlock)

\* the pages whose content area holds node n
PagesOf(n) == {q \in 1..Len(pages) : n \in RangeOf(pages[q].children)}

FirstPassReturned == pc = "idle" /\ last.outcome = "returned" /\ prev.outcome = "none"

\* C1 (Conservation): at every moment the block nodes of all pages, read in
\* page order, are exactly the block nodes of the original document in their
\* original order: none dropped, duplicated, reordered or on two pages.
C1_Conservation == BlocksOf(pages) = BlocksOf(original)

\* the ids of the members of the keep-together group that starts at index i
\* of the child list kids
GroupIds(kids, i) ==
  LET group == getKeepTogetherGroup(kids, i)
  IN [j \in 1..Len(group) |-> kids[group[j] + 1]]

\* C2 (No group splitting): for every element node of the original document
\* whose keep-together group is no taller than a page, all members of the
\* group are on one page whenever no pass is running.
C2_NoGroupSplitting ==
  pc = "idle" =>
    \A p \in 1..Len(original) :
      \A i \in 0..(Len(original[p].children) - 1) :
        LET ids == GroupIds(original[p].children, i)
        IN (Rec(original[p].children[i + 1]).nodeType = 1 /\ SumHeights(ids) <= Capacity)
             => \E q \in 1..Len(pages) : RangeOf(ids) \subseteq RangeOf(pages[q].children)

\* C3 (Reentrancy safety): the flag is false whenever no checkPageOverflow
\* call is executing, in particular right after a pass returned or threw.
C3_FlagClearWhenIdle == pc = "idle" => ~isProcessingOverflow

C3_Witness == pc = "idle" /\ last.outcome = "threw" /\ ~isProcessingOverflow

\* C4 as claimed (Idempotence): of two passes that returned in succession
\* over a document without oversized nodes, the second moved no node and
\* created no page.
C4_Idempotence ==
  (/\ pc = "idle" /\ prev.outcome = "returned" /\ last.outcome = "returned"
   /\ \A n \in DOMAIN node : node[n].height <= Capacity)
    => (last.moved = 0 /\ last.created = 0)

\* C4 as amended: when a pass returned without creating a page, the next pass
\* moves no node and creates no page.
C4_IdempotentUnlessPageCreated ==
  (pc = "idle" /\ prev.outcome = "returned" /\ prev.created = 0 /\ last.outcome # "none")
    => (last.moved = 0 /\ last.created = 0 /\ last.outcome = "returned")

C4_Witness ==
  /\ pc = "idle"
  /\ prev.outcome = "returned" /\ prev.created = 0 /\ prev.moved > 0
  /\ last.outcome = "returned" /\ last.moved = 0

\* C5 (Reentrancy guard): a checkPageOverflow call made while a pass is
\* running changes nothing of the pass, the pages, the sandboxes or the
\* timers, and leaves the flag set.
C5_GuardedCallIsNoOp ==
  [][NestedCall =>
       /\ isProcessingOverflow'
       /\ UNCHANGED <<node, pages, pageCount, isProcessingOverflow, pc, containers,
            index, tempDivs, followUps, focus, splitIndex, error, log, arrived, cur,
            last, prev>>]_vars

C5_Witness == guarded /\ isProcessingOverflow /\ pc = "measure" /\ tempDivs = 1

\* the index of the table that the heading at index i introduces, directly or
\* through one caption paragraph shorter than CaptionLimit; -1 if there is none
IntroducedTable(kids, i) ==
  LET nx == nextElementSibling(kids, i)
      after == IF nx >= 0 THEN nextElementSibling(kids, nx) ELSE -1
  IN IF nx < 0 THEN -1
     ELSE IF Rec(kids[nx + 1]).tagName = "TABLE" THEN nx
     ELSE IF /\ Rec(kids[nx + 1]).tagName = "P"
             /\ Rec(kids[nx + 1]).textLen < CaptionLimit
             /\ after >= 0
             /\ Rec(kids[after + 1]).tagName = "TABLE"
          THEN after
     ELSE -1

\* C6 (Heading stays with its table): a heading of the original document that
\* introduces a table, directly or through one short caption, with heading to
\* table no taller than a page, is on the page of that table whenever no pass
\* is running.
C6_HeadingWithTable ==
  pc = "idle" =>
    \A p \in 1..Len(original) :
      \A i \in 0..(Len(original[p].children) - 1) :
        LET kids == original[p].children
            t == IntroducedTable(kids, i)
        IN (/\ Rec(kids[i + 1]).tagName \in Headings
            /\ t >= 0
            /\ SumHeights(SubSeq(kids, i + 1, t + 1)) <= Capacity)
             => PagesOf(kids[i + 1]) = PagesOf(kids[t + 1])

\* C7 (Missing resource): no pass throws because a page lacks a content area.
C7_MissingContentNeverThrows == error # "TypeError"

\* C8 (Sandbox release): at most one measurement container is attached, and
\* none is attached outside a running overflow-handling attempt.
C8_SandboxReleased == tempDivs <= 1 /\ (pc # "measure" => tempDivs = 0)

\* C9 (Page order within a pass): a pass visits the pages in document order,
\* and every page that received nodes during the pass and is visited by it is
\* measured with those nodes at the head of its content.
C9_PagesInOrderAndCascade ==
  \A i \in 1..Len(log) :
    /\ log[i].page = i
    /\ \A a \in 1..Len(arrived) :
         arrived[a].to = log[i].page =>
           /\ IsPrefix(arrived[a].nodes, log[i].children)
           /\ log[i].extent >= SumHeights(arrived[a].nodes)

C9_Witness ==
  /\ Len(arrived) >= 2
  /\ arrived[2].to = arrived[1].to + 1
  /\ \E i \in 1..Len(log) :
       /\ log[i].page = arrived[1].to
       /\ log[i].extent > Capacity + Tolerance
       /\ Len(log[i].children) > Len(arrived[1].nodes)

OneOversizedNode ==
  /\ Len(original) = 1
  /\ original[1].content
  /\ original[1].children = <<1>>
  /\ Rec(1).height > Capacity

MoveDone == Len(arrived) > 0 /\ error # "TypeError"
LastMove == arrived[Len(arrived)]
SplitNodes == log[LastMove.to - 1].children
AdjustedIndex == Len(SplitNodes) - Len(LastMove.nodes)

\* index of the last member of the keep-together group that starts at index i
GroupEnd(kids, i) ==
  LET group == getKeepTogetherGroup(kids, i)
  IN group[Len(group)]

\* the indices below split whose element starts a group reaching split
StraddlingStarts(kids, split) ==
  {i \in 0..(split - 1) : Rec(kids[i + 1]).nodeType = 1 /\ GroupEnd(kids, i) >= split}

\* C11 (Split adjustment): the index a page is split at is the highest index
\* below the measured split index whose element's keep-together group ends at
\* or past the measured index, the measured index itself if there is none;
\* it always lies in 0..splitIndex.
C11_AdjustedSplit ==
  MoveDone =>
    LET S == StraddlingStarts(SplitNodes, splitIndex)
    IN /\ AdjustedIndex \in 0..splitIndex
       /\ S = {} => AdjustedIndex = splitIndex
       /\ S # {} => AdjustedIndex \in S /\ \A j \in S : j <= AdjustedIndex

\* a heading at index 1 followed by a table at index 2, measured split index 2
C11_Witness ==
  /\ MoveDone
  /\ Len(SplitNodes) >= 3
  /\ Rec(SplitNodes[2]).tagName \in Headings
  /\ Rec(SplitNodes[3]).tagName = "TABLE"
  /\ splitIndex = 2
  /\ AdjustedIndex = 1

\* the cumulative measured height of the nodes of kids up to and including index i
CumulativeHeight(kids, i) == SumHeights(SubSeq(kids, 1, i + 1))

\* the index of the first node at which the cumulative height exceeds the
\* available height, -1 if it never does
FirstExceeding(kids, availableHeight) ==
  LET S == {i \in 0..(Len(kids) - 1) : CumulativeHeight(kids, i) > availableHeight}
  IN IF S = {} THEN -1 ELSE CHOOSE i \in S : \A j \in S : i <= j

\* the forEach callback has just returned from handling the overflow of the
\* page it visited last
JustHandled ==
  /\ pc = "forEach" /\ index > 0
  /\ log[index].extent > Capacity + Tolerance

\* C12 (Split index computation): the split index of a handled overflow is the
\* index of the first node at which the cumulative measured height exceeds the
\* available height; for every child list of the document the computed index is
\* that index, and -1 when the cumulative height of all nodes never exceeds it.
C12_SplitIndex ==
  /\ JustHandled => splitIndex = FirstExceeding(log[index].children, Capacity)
  /\ \A p \in 1..Len(pages) :
       computeSplitIndex(pages[p].children, clientHeight(pages[p]))
         = FirstExceeding(pages[p].children, clientHeight(pages[p]))

C12_Witness ==
  /\ JustHandled
  /\ splitIndex = 2
  /\ CumulativeHeight(log[index].children, 1) <= Capacity
  /\ \E p \in 1..Len(pages) :
       /\ Len(pages[p].children) >= 2
       /\ computeSplitIndex(pages[p].children, clientHeight(pages[p])) = -1

\* the index of the first element after index i of kids, -1 if there is none
NextElement(kids, i) ==
  LET S == {j \in (i + 1)..(Len(kids) - 1) : Rec(kids[j + 1]).nodeType = 1}
  IN IF S = {} THEN -1 ELSE CHOOSE j \in S : \A m \in S : j <= m

TagAt(kids, i) == IF i < 0 THEN "none" ELSE Rec(kids[i + 1]).tagName

\* the three cases in which a node is kept with its next element sibling
KeepCaseA(kids, i) ==
  /\ TagAt(kids, i) \in {"H1", "H2", "H3", "H4", "H5", "H6"}
  /\ TagAt(kids, NextElement(kids, i)) \in {"TABLE", "UL", "OL"}

KeepCaseB(kids, i) ==
  LET nx == NextElement(kids, i)
  IN /\ TagAt(kids, i) \in {"H1", "H2", "H3", "H4", "H5", "H6"}
     /\ TagAt(kids, nx) = "P"
     /\ Rec(kids[nx + 1]).textLen < CaptionLimit
     /\ TagAt(kids, NextElement(kids, nx)) = "TABLE"

KeepCaseC(kids, i) ==
  /\ TagAt(kids, i) = "P"
  /\ Rec(kids[i + 1]).endsColon
  /\ TagAt(kids, NextElement(kids, i)) \in {"TABLE", "UL", "OL"}

\* C13 (Keep-with-next rule): over every child list of the document,
\* shouldKeepWithNext is false for a null node and for a node without next
\* element sibling, and otherwise true exactly in the cases (a) heading before
\* table or list, (b) heading before a paragraph of fewer than 100 characters
\* that is followed by a table, (c) paragraph ending with ':' before table or list.
C13_KeepWithNextRule ==
  \A p \in 1..Len(pages) :
    LET kids == pages[p].children
    IN /\ ~shouldKeepWithNext(kids, -1)
       /\ \A i \in 0..(Len(kids) - 1) :
            IF NextElement(kids, i) < 0
            THEN ~shouldKeepWithNext(kids, i)
            ELSE shouldKeepWithNext(kids, i)
                   <=> (KeepCaseA(kids, i) \/ KeepCaseB(kids, i) \/ KeepCaseC(kids, i))

\* a pass split a page in front of an H6 heading that introduces an ordered list
C13_Witness ==
  /\ MoveDone
  /\ AdjustedIndex < splitIndex
  /\ KeepCaseA(SplitNodes, AdjustedIndex)
  /\ TagAt(SplitNodes, AdjustedIndex) = "H6"
  /\ TagAt(SplitNodes, NextElement(SplitNodes, AdjustedIndex)) = "OL"

\* C14 (Keep-together group): for every element of every child list, the group
\* begins with the element, each further member is the next element sibling of
\* the member before it, shouldKeepWithNext holds for every member but the
\* last and fails for the last; so an element without forced successor yields
\* the group of itself alone.
C14_GroupIsMaximalRun ==
  \A p \in 1..Len(pages) :
    LET kids == pages[p].children
    IN \A i \in 0..(Len(kids) - 1) :
         Rec(kids[i + 1]).nodeType = 1 =>
           LET group == getKeepTogetherGroup(kids, i)
           IN /\ Len(group) >= 1
              /\ group[1] = i
              /\ \A j \in 1..(Len(group) - 1) :
                   /\ shouldKeepWithNext(kids, group[j])
                   /\ group[j + 1] = NextElement(kids, group[j])
              /\ ~shouldKeepWithNext(kids, group[Len(group)])
              /\ ~shouldKeepWithNext(kids, i) => group = <<i>>

\* the backward scan of a split went down to a heading at index 0 whose group
\* has three members, and past an element whose group is itself alone
C14_Witness ==
  /\ MoveDone
  /\ splitIndex = 3
  /\ AdjustedIndex = 3
  /\ Len(getKeepTogetherGroup(SplitNodes, 0)) = 3
  /\ getKeepTogetherGroup(SplitNodes, 2) = <<2>>

\* C15 (Overflow threshold): handling of a page begins only when its extent
\* exceeds the capacity by more than 2; every move of a pass comes from such a
\* page; and every such page the pass has dealt with had content moved off it.
\* A page whose extent is capacity + 1 or capacity + 2 is never handled.
C15_Threshold ==
  /\ pc = "measure" => log[Len(log)].extent > Capacity + 2
  /\ \A a \in 1..Len(arrived) : log[arrived[a].to - 1].extent > Capacity + 2
  /\ \A i \in 1..Len(log) :
       (i <= index /\ error = "none" /\ log[i].extent > Capacity + 2)
         => \E a \in 1..Len(arrived) : arrived[a].to = i + 1

\* a pass returned that left alone one page of extent capacity + 2 and handled
\* one page of extent capacity + 3
C15_Witness ==
  /\ pc = "idle" /\ last.outcome = "returned"
  /\ \E i, j \in 1..Len(log) :
       /\ log[i].extent = Capacity + 2
       /\ \A a \in 1..Len(arrived) : arrived[a].to # i + 1
       /\ log[j].extent = Capacity + 3
       /\ \E a \in 1..Len(arrived) : arrived[a].to = j + 1

\* a content area that holds placeholder markup and nothing else but
\* whitespace text
EmptyStub(kids) ==
  /\ hasPlaceholder(kids)
  /\ \A j \in 1..Len(kids) : kids[j] = 0 \/ Rec(kids[j]).placeholder

\* C16 (Move postcondition): a move takes the tail of the source page in its
\* order to the head of the destination, and the children that an existing
\* destination had before follow it in their order unless the destination was
\* an empty placeholder stub.
C16_MovePostcondition ==
  [][(HandlePageOverflow /\ Len(arrived') > Len(arrived)) =>
       LET move == arrived'[Len(arrived')]
           k == move.to
       IN /\ pages[k - 1].children = pages'[k - 1].children \o move.nodes
          /\ IsPrefix(move.nodes, pages'[k].children)
          /\ (k <= Len(pages) /\ ~EmptyStub(pages[k].children))
               => pages'[k].children = move.nodes \o pages[k].children]_vars

\* handlePageOverflow got past its measuring loop and removed the sandbox
SplitStep == HandlePageOverflow /\ tempDivs' < tempDivs

\* C17 (Next-page reuse): a handled overflow of page k adds at most one page,
\* and adds one only if page k is the last page; the pages that existed keep
\* their places; and the nodes taken off page k are at the head of the content
\* of the page right after page k.
C17_NextPageReuse ==
  [][SplitStep =>
       LET k == log[Len(log)].page
           taken == SubSeq(pages[k].children, Len(pages'[k].children) + 1,
                           Len(pages[k].children))
       IN /\ Len(pages') \in {Len(pages), Len(pages) + 1}
          /\ Len(pages') > Len(pages) => k = Len(pages)
          /\ \A q \in 1..Len(pages) : pages'[q].id = pages[q].id
          /\ taken # <<>>
          /\ k + 1 <= Len(pages')
          /\ pages'[k + 1].content
          /\ IsPrefix(taken, pages'[k + 1].children)]_vars

\* C18 (Page numbering): the identifiers and labels of the pages read
\* 1, 2, ..., n in document order, and the next ordinal to hand out is n + 1.
C18_SequentialOrdinals ==
  /\ \A q \in 1..Len(pages) : pages[q].id = q
  /\ pageCount = Len(pages)

\* page 2 was created by an overflow pass (moved nodes in front of the template
\* whitespace), page 3 by the Add Page button (template whitespace only)
C18_Witness ==
  /\ Len(original) = 1
  /\ Len(pages) = 3
  /\ Len(pages[2].children) > 1
  /\ pages[2].children[Len(pages[2].children)] = 0
  /\ pages[3].children = <<0>>
  /\ pages[3].id = 3

\* the pending timers of the debounced function f
Pending(f) == {t \in timers : t.fn = f}

\* C19 (Debounce): each debounced function has at most one timer pending, the
\* one its last trigger set, due one delay after that trigger and carrying its
\* arguments; after a trigger the function is invoked at most once, exactly one
\* delay after it and with its arguments, and it has been invoked once the
\* delay is over.
C19_Debounce ==
  \A f \in Debounced :
    LET b == bursts[f]
    IN /\ Cardinality(Pending(f)) <= 1
       /\ \A t \in Pending(f) :
            /\ b.triggered /\ b.fired = 0
            /\ t.due = b.at + Delay(f)
            /\ t.args = b.args
       /\ b.fired <= 1
       /\ b.fired = 1 =>
            /\ Pending(f) = {}
            /\ b.firedAt = b.at + Delay(f)
            /\ b.firedArgs = b.args
       /\ (b.triggered /\ now > b.at + Delay(f)) => b.fired = 1
       /\ ~b.triggered => (Pending(f) = {} /\ b.fired = 0)

\* the last trigger of each of the two overflow checks cancelled a pending
\* timer, and each check has been invoked once since
C19_Witness ==
  /\ \A f \in {"mutation", "typing"} : bursts[f].cancelled /\ bursts[f].fired = 1
  /\ bursts["mutation"].at = 200
  /\ bursts["mutation"].firedAt = 700
  /\ bursts["typing"].firedAt = bursts["typing"].at + 100

\* a step of handlePageOverflow that moved nodes to another page
MoveStep == HandlePageOverflow /\ Len(arrived') > Len(arrived)

NotificationServed ==
  (records # {} /\ now + OVERFLOW_CHECK <= MaxClock) ~> (bursts["mutation"].fired >= 1)

\* C21 (Change-driven check liveness): handling a change notification leaves
\* no notification pending that the handling itself caused, and after a change
\* notification the debounced overflow check is invoked.
C21_ChangeDrivenCheck ==
  /\ [][RecordsDelivered => records' = {}]_vars
  /\ NotificationServed

\* for documents without table of contents the check is invoked
C21_WithoutTOC == (\A n \in DOMAIN node : ~isTOC(node[n])) => NotificationServed

\* the first node of kids, in reading order, that bears text other than
\* whitespace; -1 if there is none
FirstWithText(kids) ==
  LET S == {j \in 1..Len(kids) : Rec(kids[j]).textLen > 0 /\ Rec(kids[j]) # WsText}
  IN IF S = {} THEN -1 ELSE kids[CHOOSE j \in S : \A m \in S : j <= m]

\* C22 (Cursor relocation): once a pass has moved nodes, the focus is on the
\* destination of its latest move, that page is the one scrolled into view, and
\* the caret is at the start of the first node of the destination that bears
\* text, or collapsed at the start of the destination if no node does.
C22_CursorRelocation ==
  MoveDone =>
    /\ focus = LastMove.to
    /\ scrolledTo = LastMove.to
    /\ caret.page = LastMove.to
    /\ caret.node = FirstWithText(pages[LastMove.to].children)

\* a pass made two moves; the second took a paragraph without text to a new
\* page 3, where the selection is collapsed at the start of the content area
C22_Witness ==
  /\ pc = "idle" /\ last.outcome = "returned"
  /\ Len(arrived) = 2
  /\ focus = 3 /\ scrolledTo = 3
  /\ caret = [page |-> 3, node |-> -1]
  /\ Len(pages[3].children) = 2


\* C23 (subscription re-registration): once the engine runs, after every setup
\* of the content monitoring and every added page exactly one observer is
\* connected, it is the one the page manager holds, and it observes every
\* content area of the document, the one of the page just added included
C23_OneObserver ==
  lifecycle = "running" =>
    /\ Cardinality(observers) = 1
    /\ \A o \in observers :
         /\ o.id = contentObserver
         /\ ContentAreas(pages) \subseteq o.areas

\* two pages were added after the start, by the button or by a pass
C23_Witness ==
  /\ lifecycle = "running"
  /\ Len(pages) = 3
  /\ pageCount = 3
  /\ \E o \in observers : o.areas = {1, 2, 3}

\* destroy() itself leaves no observer connected and no auto-save timer
DestroyReleases == [][Destroy => (observers' = {} /\ intervals' = {})]_vars

\* C24 (teardown): once destroy() has run, no change of the content makes the
\* observer callback run and schedule a debounced overflow check
C24_NoCheckAfterDestroy ==
  [][(lifecycle \in {"destroyed", "discarded"}) => ~RecordsDelivered]_vars

\* the count in documents that have a page
CountWithPages == (lifecycle = "running" /\ pages # <<>>) => pageCount = Len(pages)

\* clearDocument leaves the first page, holding one empty paragraph, and the
\* count 1
ClearLeavesFirstPage ==
  [][(ClearDocument /\ pages # <<>>) =>
       /\ pageCount' = 1
       /\ pages' = <<[pages[1] EXCEPT !.children = <<NewParagraph>>]>>]_vars

\* C25 (page count consistency): once the engine is initialized, whatever
\* sequence of added pages (failed ones included), overflow passes,
\* clearDocument and loadDocumentData has run, getPageCount() is the number of
\* pages in the document
C25_PageCount == lifecycle = "running" => pageCount = Len(pages)

\* C26 (margin guides are uniform): from guides hidden everywhere, after any
\* sequence of toggleMargins calls and added pages every page shows the guides
\* exactly if toggleMargins was called an odd number of times
C26_UniformMargins ==
  \A q \in 1..Len(pages) : (q \in showMargins) <=> (toggles = 1)

\* two pages were added while the guides were shown
C26_Witness ==
  /\ toggles = 1
  /\ original # <<>>
  /\ Len(pages) = Len(original) + 2
  /\ showMargins = 1..Len(pages)

\* C28 (auto-save timer uniqueness): after any sequence of initAutoSave and
\* stopAutoSave calls at most one interval timer is active, it is the one the
\* storage manager holds, and none is active once stopAutoSave has cleared the
\* handle
C28_OneAutoSaveTimer ==
  /\ Cardinality(intervals) <= 1
  /\ autoSaveInterval = 0 => intervals = {}
  /\ autoSaveInterval # 0 => intervals = {autoSaveInterval}

\* initAutoSave was called while the timer of the previous call was running
C28_Witness == lifecycle = "running" /\ autoSaveInterval = 2 /\ intervals = {2}

\* stopAutoSave stopped the running timer
StopStopsTimer ==
  [][(StopAutoSave /\ autoSaveInterval # 0) => (autoSaveInterval' = 0 /\ intervals' = {})]_vars

\* C27 (legacy auto-save restore): when the engine starts with no stored
\* document of the current format and with content under the legacy key, the
\* content area of the first page holds that legacy content afterwards
C27_LegacyRestore ==
  [][(Initialize /\ pages # <<>> /\ localStorage.current = NoDoc /\ localStorage.legacy # <<>>)
       => pages'[1].children = localStorage.legacy]_vars

\* with legacy content only, startup leaves the first page as it was shipped,
\* but for the empty paragraph of initializeDocument
LegacyIgnored ==
  [][(Initialize /\ pages # <<>> /\ localStorage.current = NoDoc /\ localStorage.legacy # <<>>)
       => pages'[1].children = IF isBlank(pages[1].children) THEN <<NewParagraph>>
                               ELSE pages[1].children]_vars

\* no page visited so far by the running or latest pass was over the limit
NoneDetected(visits) ==
  \A j \in 1..Len(visits) : visits[j].extent <= Capacity + Tolerance

\* C29 (frame of a quiet pass): every step of a pass, from the call to the
\* return, after which no visited page was detected as overflowing moves no
\* node, creates no page, leaves focus, caret and scroll position, schedules
\* no follow-up check and leaves no measurement container; the flag is set at
\* the call and clear again at the return
C29_QuietPassFrame ==
  [][((pc # "idle" \/ pc' # "idle") /\ NoneDetected(log')) =>
       /\ pages' = pages
       /\ pageCount' = pageCount
       /\ focus' = focus /\ caret' = caret /\ scrolledTo' = scrolledTo
       /\ followUps' <= followUps
       /\ timers' = timers
       /\ tempDivs' = tempDivs
       /\ observers' = observers
       /\ isProcessingOverflow' = (pc' # "idle")]_vars

\* a pass over two pages returned, one of them filled to the limit exactly
C29_Witness ==
  /\ pc = "idle"
  /\ last.outcome = "returned"
  /\ Len(log) = 2
  /\ NoneDetected(log)
  /\ \E j \in 1..Len(log) : log[j].extent = Capacity + Tolerance
  /\ pages = original
  /\ followUps = 0

\* C30 (progress of one handling): when handlePageOverflow measures a page
\* detected as overflowing, and the heights its nodes take in the sandbox sum
\* to the extent of its content, it finds a split index >= 0, at least one
\* node leaves the page, and the nodes that stay are a prefix of the former
\* content whose cumulative height is at most the capacity
C30_Progress ==
  [][(SplitStep /\ SumHeights(pages[currentContainer(index)].children)
                    = scrollHeight(pages[currentContainer(index)]))
       => LET k == currentContainer(index)
          IN /\ splitIndex' >= 0
             /\ Len(pages'[k].children) < Len(pages[k].children)
             /\ IsPrefix(pages'[k].children, pages[k].children)
             /\ SumHeights(pages'[k].children) <= Capacity]_vars

\* an overflow was handled whose split was moved back to keep a group together:
\* nodes stayed on the page and more than the exceeding node left it
C30_Witness ==
  /\ MoveDone
  /\ pc = "forEach"
  /\ AdjustedIndex >= 1
  /\ AdjustedIndex < splitIndex
  /\ pages[LastMove.to - 1].children = SubSeq(SplitNodes, 1, AdjustedIndex)
  /\ SumHeights(pages[LastMove.to - 1].children) <= Capacity

\* every element of the document and every keep-together group fits a page
GroupsFit ==
  \A p \in 1..Len(original) :
    \A i \in 0..(Len(original[p].children) - 1) :
      SumHeights(GroupIds(original[p].children, i)) <= Capacity

\* no page overflows, no pass runs, no check is pending; the pages are no more
\* than the block nodes and the pages the document started with
Settled ==
  /\ pc = "idle"
  /\ followUps = 0
  /\ timers = {}
  /\ records = {}
  /\ \A q \in 1..Len(pages) :
       pages[q].content => scrollHeight(pages[q]) <= clientHeight(pages[q]) + Tolerance
  /\ pageCount <= Len(BlocksOf(original)) + Len(original)

\* the chain of passes has come to its end
Ended == last # None /\ Settled

\* C31 (termination): when every node and every keep-together group fits a
\* page and nobody edits, the passes set off by the initial check, the follow-up
\* timers and the debounced checks make progress until they come to an end:
\* from some point on no page overflows, no check is pending and the page
\* count is within its bound
C31_Termination ==
  /\ [](GroupsFit => (Ended \/ ENABLED <<NextSettle>>_vars))
  /\ <>[](GroupsFit => Ended)

\* the same for documents without a table of contents
C31_WithoutTOC ==
  /\ []((GroupsFit /\ \A n \in DOMAIN node : ~isTOC(node[n]))
         => (Ended \/ ENABLED <<NextSettle>>_vars))
  /\ <>[]((GroupsFit /\ \A n \in DOMAIN node : ~isTOC(node[n])) => Ended)

\* the children of the page the running pass is at
CurKids == pages[currentContainer(index)].children

\* height of the keep-together group that starts at index 0 (of the first node
\* alone if it keeps with nothing)
FirstGroupHeight(kids) == IF kids = <<>> THEN 0 ELSE SumHeights(GroupIds(kids, 0))

\* the handling took the whole content of the page to the next page, which it
\* created if none followed, and set a follow-up timer
WholeContentMoved ==
  LET k == currentContainer(index)
  IN /\ pages'[k].children = <<>>
     /\ Len(pages') = (IF k = Len(pages) THEN Len(pages) + 1 ELSE Len(pages))
     /\ IsPrefix(pages[k].children, pages'[k + 1].children)
     /\ followUps' = followUps + 1

\* a page whose first node alone is taller than a page: every handling moves
\* the whole content on, and the content overflows the next page again
OversizedFirstNodeMoves ==
  [][(SplitStep /\ CurKids # <<>> /\ Rec(CurKids[1]).height > Capacity)
       => (WholeContentMoved
           /\ scrollHeight(pages'[currentContainer(index) + 1]) > Capacity + Tolerance)]_vars

\* C32 (oversized content never settles): whenever a pass handles a page whose
\* first node, or whose keep-together group starting at index 0, is taller
\* than the capacity, it moves the whole content of the page to the next page,
\* creating that page when none follows, and schedules another follow-up check
C32_OversizedNeverSettles ==
  [][(SplitStep /\ FirstGroupHeight(CurKids) > Capacity) => WholeContentMoved]_vars

\* a call of checkPageOverflow that goes past the guard and starts a pass
PassStarts == pc = "idle" /\ pc' = "forEach"

\* C33 (the reentrancy guard is never hit): every trigger of checkPageOverflow
\* runs as a task of its own and nothing run inside a pass calls it, so no call
\* finds isProcessingOverflow set and returns at the guard: the flag is set
\* exactly while a pass is under way, and every step of a pass leaves the
\* pending triggers pending.
C33_GuardNeverHit ==
  /\ ~guarded
  /\ isProcessingOverflow <=> pc # "idle"

\* no step taken while the flag is set is a call of checkPageOverflow: it
\* cancels no pending timer and starts no pass
NoCallInsidePass ==
  [][isProcessingOverflow =>
       /\ followUps' >= followUps
       /\ timers' = timers
       /\ ~PassStarts]_vars

\* a pass is under way with a follow-up timer, a debounced check and change
\* records all pending, after an earlier pass has returned
C33_Witness ==
  /\ isProcessingOverflow
  /\ pc = "forEach"
  /\ followUps > 0
  /\ \E t \in timers : t.fn \in {"mutation", "typing"}
  /\ records # {}
  /\ last # None
  /\ ~guarded

\* the pages the running pass, or else the latest one, has created
CreatedInPass == IF pc = "idle" THEN last.created ELSE cur.created

\* the pages the document had when that pass started
PagesAtStart == Len(pages) - CreatedInPass

\* the page at position q has been examined by that pass
Examined(q) == \E j \in 1..Len(log) : log[j].page = q

Overflows(q) ==
  pages[q].content /\ scrollHeight(pages[q]) > clientHeight(pages[q]) + Tolerance

\* C34 (a page created during a pass is not examined in that pass): the pass
\* examines the pages the document had when it started, each at most once and in
\* order, and none of the pages it has created itself; a pass that has returned
\* after creating a page leaves a follow-up timer pending for it.
C34_CreatedPageNotExamined ==
  /\ pc # "idle" => containers = PagesAtStart
  /\ \A j \in 1..Len(log) : log[j].page = j /\ log[j].page <= PagesAtStart
  /\ \A q \in (PagesAtStart + 1)..Len(pages) : ~Examined(q)
  /\ (pc = "idle" /\ last.outcome = "returned" /\ last.created > 0) => followUps > 0

\* a pass has returned that created the last page, which overflows and has
\* not been examined
C34_Witness ==
  /\ pc = "idle"
  /\ last.outcome = "returned"
  /\ last.created = 1
  /\ Overflows(Len(pages))
  /\ ~Examined(Len(pages))
  /\ \A q \in 1..(Len(pages) - 1) : Examined(q)

\* the step in which a pass is left by an exception
PassThrows == pc # "idle" /\ pc' = "idle" /\ last'.outcome = "threw"

\* a failure of cloning or measuring leaves every page as it was
MeasureFailureKeepsContent ==
  [][(PassThrows /\ error' = "MeasureError") => pages' = pages]_vars

\* the failing step itself takes no block node off the pages
ThrowKeepsContent == [][PassThrows => BlocksOf(pages') = BlocksOf(pages)]_vars

\* C35 (content survives a failed pass): after checkPageOverflow has thrown,
\* every block node of the document is on exactly one page and the block nodes
\* of all pages, read in page order, are in their original order.
C35_ContentSurvivesFailure ==
  (pc = "idle" /\ last.outcome = "threw") =>
    /\ BlocksOf(pages) = BlocksOf(original)
    /\ \A n \in RangeOf(BlocksOf(original)) : Cardinality(PagesOf(n)) = 1

\* C36 (no pass after teardown): once destroy() has returned on a running
\* engine, no call of checkPageOverflow starts a pass any more.
C36_NoPassAfterDestroy == [][lifecycle = "destroyed" => ~PassStarts]_vars

\* a document loadDocumentData takes neither branch for: not a version with
\* pages and no legacy content field
Unloadable(doc) ==
  /\ ~(doc.version \in {"2.0", "3.0"} /\ doc.pages # <<>>)
  /\ doc.content = <<>>

\* C37 (loading is all-or-nothing): loading a document that loadDocumentData
\* cannot load leaves the pages, their content and the page count as they were.
C37_LoadAllOrNothing ==
  [][\A doc \in Imported :
       (LoadDocument(doc) /\ Unloadable(doc)) => (pages' = pages /\ pageCount' = pageCount)]_vars

\* what such a load does keep: the first page and its content
UnloadableKeepsFirstPage ==
  [][\A doc \in Imported :
       (LoadDocument(doc) /\ Unloadable(doc)) => (pages' = <<pages[1]>> /\ pageCount' = 1)]_vars

\* saving a document in which every content area holds a node gives a valid file
NonEmptyPagesValidate ==
  [][(saveToLocalStorage /\ \A q \in 1..Len(pages) : pages[q].children # <<>>)
       => validateDocument(JSONstringify(SavedDocument(pages)))]_vars

\* C38 (save/import round trip): the document object of every save, written to
\* a file by exportToJSON and parsed again by importFromJSON, is accepted by
\* validateDocument, whatever the pages hold.
C38_SavedDocumentValidates ==
  [][saveToLocalStorage => validateDocument(JSONstringify(SavedDocument(pages)))]_vars

====
